---------------------------- MODULE Spec2Model ----------------------------
(***************************************************************************)
(* OpenFlag backend: the flag cache (app/cache.py) and the CRUD handlers   *)
(* that use it (app/routers/flags.py) over the flags table                *)
(* (app/models.py).                                                        *)
(*                                                                         *)
(* Eight specifications share the variables:                               *)
(*   CacheSpec  calls of InMemoryCache.get/set/delete/clear while the      *)
(*              clock advances;                                            *)
(*   ThreadSpec the same calls made from several threads, interleaved      *)
(*              between dict operations;                                   *)
(*   RedisSpec  create_cache() under any configuration, then calls of the  *)
(*              flag_cache it built, on a Redis server that other clients  *)
(*              share and that can become unreachable;                     *)
(*   Spec       request handlers of several workers interleaved at each    *)
(*              store call and each cache call;                            *)
(*   SeqSpec    the same handlers, one request at a time (the handlers     *)
(*              are `async def` bodies without an await, so one event      *)
(*              loop runs each of them to completion);                     *)
(*   TypeSpec   create and update requests over every FlagType, with null  *)
(*              fields in the update bodies, workers interleaved;          *)
(*   TypeSeqSpec the same requests, one at a time;                         *)
(*   EquivSpec  an InMemoryCache and a RedisCache given the same calls at  *)
(*              the same clock.                                            *)
(***************************************************************************)
EXTENDS Integers, Sequences, FiniteSets, TLC

\* ------------------------------------------------------------------ bounds
\* settings.cache_ttl in seconds (CACHE_TTL, default 30); a short TTL keeps
\* the clock small.
TTL == 1
\* the clock runs from 0 to MaxTime
MaxTime == 2
\* the largest primary key the table hands out
MaxId == 2
\* the number of successful commits in one behaviour
MaxCommits == 3

Keys == {"f1", "f2"}
Procs == {"w1", "w2"}

\* Optional[...] = None
None == [none |-> TRUE]

\* ------------------------------------------------------------- dict helpers
\* d[k] = v on a dict
Put(d, k, v) == [x \in DOMAIN d \cup {k} |-> IF x = k THEN v ELSE d[x]]
\* del d[k] / d.pop(k, None) on a dict
Remove(d, k) == [x \in DOMAIN d \ {k} |-> d[x]]
\* {}
EmptyDict == [x \in {} |-> None]

\* ------------------------------------------------------------ InMemoryCache
\* Every operation returns the new dict, the returned value and whether the
\* call raised.

\* mutant of CacheGet: the entry expires when exactly TTL has elapsed
CacheGetStrict(c, key, t) ==
    IF key \notin DOMAIN c
    THEN [cache |-> c, ret |-> None, raised |-> FALSE]
    ELSE IF t - c[key].timestamp >= TTL
         THEN [cache |-> Remove(c, key), ret |-> None, raised |-> FALSE]
         ELSE [cache |-> c, ret |-> c[key].flag, raised |-> FALSE]

\* mutant of CacheGet: an expired entry is reported absent and left in place
CacheGetNoEvict(c, key, t) ==
    IF key \notin DOMAIN c
    THEN [cache |-> c, ret |-> None, raised |-> FALSE]
    ELSE IF t - c[key].timestamp > TTL
         THEN [cache |-> c, ret |-> None, raised |-> FALSE]
         ELSE [cache |-> c, ret |-> c[key].flag, raised |-> FALSE]

\* mutant of CacheGet: sliding expiry, a hit stamps the entry again
CacheGetTouch(c, key, t) ==
    IF key \notin DOMAIN c
    THEN [cache |-> c, ret |-> None, raised |-> FALSE]
    ELSE IF t - c[key].timestamp > TTL
         THEN [cache |-> Remove(c, key), ret |-> None, raised |-> FALSE]
         ELSE [cache |-> Put(c, key, [flag |-> c[key].flag, timestamp |-> t]),
               ret |-> c[key].flag, raised |-> FALSE]

\* InMemoryCache.get at clock t
CacheGet(c, key, t) ==
    IF key \notin DOMAIN c
    THEN [cache |-> c, ret |-> None, raised |-> FALSE]
    ELSE LET flag == c[key].flag
             timestamp == c[key].timestamp
         IN  IF t - timestamp > TTL
             THEN [cache |-> Remove(c, key), ret |-> None, raised |-> FALSE]
             ELSE [cache |-> c, ret |-> flag, raised |-> FALSE]

\* mutant of CacheSet: setdefault, an existing entry is kept
CacheSetDefault(c, key, flag, t) ==
    [cache |-> IF key \in DOMAIN c THEN c
               ELSE Put(c, key, [flag |-> flag, timestamp |-> t]),
     ret |-> None, raised |-> FALSE]

\* InMemoryCache.set at clock t
CacheSet(c, key, flag, t) ==
    [cache |-> Put(c, key, [flag |-> flag, timestamp |-> t]),
     ret |-> None, raised |-> FALSE]

\* mutant of CacheDelete: del self._cache[key], a KeyError when absent
CacheDeleteStrict(c, key) ==
    [cache |-> Remove(c, key), ret |-> None, raised |-> key \notin DOMAIN c]

\* InMemoryCache.delete
CacheDelete(c, key) ==
    [cache |-> Remove(c, key), ret |-> None, raised |-> FALSE]

\* mutant of CacheClear: dict.popitem(), one entry goes
CacheClearOne(c) ==
    [cache |-> IF DOMAIN c = {} THEN c
               ELSE Remove(c, CHOOSE k \in DOMAIN c : TRUE),
     ret |-> None, raised |-> FALSE]

\* InMemoryCache.clear
CacheClear(c) ==
    [cache |-> EmptyDict, ret |-> None, raised |-> FALSE]

VARIABLES
    cache,      \* flag_cache._cache: key -> [flag, timestamp]
    now,        \* datetime.utcnow(), in seconds
    flags,      \* the flags table: id -> row
    seq,        \* history: the number of successful commits so far
    pc,         \* worker -> where its request handler stands
    req,        \* worker -> the request and the handler's locals
    resp,       \* worker -> the response of the finished request
    serial,     \* TRUE when requests run one at a time (one event loop)
    doneUpd,    \* history: key -> commit number of the latest finished update
    deleted,    \* history: key -> deleted (204) and not created again
    origin,     \* history: key -> the handler that wrote its cache entry
    before,     \* history (serial): table and cache when the request began
    expect,     \* history (serial): the row the latest update request left
    last,       \* history: the latest cache call of CacheSpec
    prev,       \* history: the call before it
    written,    \* history: key -> the latest set not followed by delete/clear
    cleared,    \* history: keys a clear() removed that were not set since
    store,      \* the Redis server's keyspace: store key -> [data, expire_at]
    reachable,  \* whether the Redis server answers
    conf,       \* REDIS_AVAILABLE and settings.redis_url
    backend     \* flag_cache: what create_cache() returned

cacheHist == <<last, prev, written, cleared>>
redisVars == <<store, reachable, conf, backend>>
apiVars == <<flags, seq, pc, req, resp, serial, doneUpd, deleted, origin,
            before, expect>>
vars == <<cache, now, flags, seq, pc, req, resp, serial, doneUpd, deleted,
          origin, before, expect, last, prev, written, cleared, store,
          reachable, conf, backend>>

\* ---------------------------------------------------------- the flags table
\* FlagType values the requests below use
Types == {"boolean"}
\* values the requests below send
Values == {"true", "false", "x"}

\* str.lower() on the strings used here
Lower(s) == CASE s = "TRUE" -> "true" [] s = "False" -> "false" [] OTHER -> s
\* the strings float() accepts, among those used here
FloatStrings == {"42", "3", "1.5"}
\* the strings json.loads() accepts, among those used here
JsonStrings == {"true", "false", "42", "3", "1.5", "{}"}

\* _validate_flag_value: TRUE when it returns, FALSE when it raises 400
ValidFlagValue(flag_type, value) ==
    CASE flag_type = "boolean" -> Lower(value) \in {"true", "false"}
      [] flag_type = "number" -> value \in FloatStrings
      [] flag_type = "json" -> value \in JsonStrings
      [] OTHER -> TRUE

\* None as the value of a body field ("value": null), as a string
Null == "<None>"

\* _validate_flag_value on None: None.lower() is an AttributeError, and
\* float(None) and json.loads(None) are TypeErrors, which no except catches
ValidateCrashes(flag_type, value) ==
    value = Null /\ flag_type \in {"boolean", "number", "json"}

\* the columns type and value are NOT NULL
NotNullOk(row) == row.type # Null /\ row.value # Null

\* select(Flag).where(Flag.key == key)).first()
SelectByKey(tbl, key) ==
    IF \E i \in DOMAIN tbl : tbl[i].key = key
    THEN tbl[CHOOSE i \in DOMAIN tbl : tbl[i].key = key]
    ELSE None

\* session.get(Flag, flag_id)
SessionGet(tbl, id) == IF id \in DOMAIN tbl THEN tbl[id] ELSE None

\* the primary key of a new row: INTEGER PRIMARY KEY of SQLite, the
\* default database, is the largest rowid plus one
NextId(tbl) ==
    IF DOMAIN tbl = {} THEN 1
    ELSE (CHOOSE i \in DOMAIN tbl : \A j \in DOMAIN tbl : j <= i) + 1

\* FlagCreate bodies
CreateInputs == [key : Keys, type : Types, value : Values]

\* flag_update.model_dump(exclude_unset=True): the fields the body sets
UpdateInputs ==
    {EmptyDict} \cup [value : Values] \cup [type : Types]
        \cup [type : Types, value : Values]

\* update_data.get(field, default)
DictGet(d, field, default) == IF field \in DOMAIN d THEN d[field] ELSE default

\* mutant of Updated: the body replaces the row, a field it leaves out going
\* back to its FlagCreate default
UpdatedFull(row, loaded, data, n) ==
    [id |-> row.id, key |-> row.key,
     type |-> DictGet(data, "type", "boolean"),
     value |-> DictGet(data, "value", "false"),
     ver |-> n]

\* the row an UPDATE of the attributes that setattr changed leaves
\* (the flush writes the modified attributes only), stamped with commit n
Updated(row, loaded, data, n) ==
    [id |-> row.id, key |-> row.key,
     type |-> IF "type" \in DOMAIN data /\ data.type # loaded.type
              THEN data.type ELSE row.type,
     value |-> IF "value" \in DOMAIN data /\ data.value # loaded.value
               THEN data.value ELSE row.value,
     ver |-> n]

NoReq == [op |-> "none"]
NoResp == [status |-> 0]

Req(op, key, id, data, flag) ==
    [op |-> op, key |-> key, id |-> id, data |-> data, flag |-> flag,
     committed |-> FALSE, invalidated |-> FALSE, afterDel |-> FALSE,
     cver |-> 0, dup |-> FALSE]

Response(status, flag) == [status |-> status, flag |-> flag]

\* whether d holds an unexpired entry for key at clock t
Valid(c, key, t) == key \in DOMAIN c /\ t - c[key].timestamp <= TTL

Idle == \A q \in Procs : pc[q] = "idle"

\* a request is taken up; the one event loop (worker w1) takes it up when
\* the previous handler has returned
Admit(p) == pc[p] = "idle" /\ (serial => Idle /\ p = "w1")

\* the keys requests name: interleaved workers contend for one key
RequestKeys == IF serial THEN Keys ELSE {"f1"}

Snapshot == IF serial THEN [flags |-> flags, cache |-> cache] ELSE before

\* history: a commit on key overtakes what was expected of it
Forget(e, key) == IF e # None /\ e.key = key THEN None ELSE e

\* history: an entry that left the dict has no writer
Writers(c) == [k \in Keys |-> IF k \in DOMAIN c THEN origin[k] ELSE "none"]

\* history: the number the next commit gets (kept for interleaved workers)
Stamp == IF serial THEN 0 ELSE seq + 1

\* the handler returns or raises: the response goes out
Finish(p, r, status, flag) ==
    /\ pc' = [pc EXCEPT ![p] = "done"]
    /\ req' = [req EXCEPT ![p] = r]
    /\ resp' = [resp EXCEPT ![p] = Response(status, flag)]

Goto(p, r, label) ==
    /\ pc' = [pc EXCEPT ![p] = label]
    /\ req' = [req EXCEPT ![p] = r]
    /\ UNCHANGED resp

\* a datetime value, in seconds
Datetime(n) == [datetime |-> n]

\* records handed to the cache in CacheSpec, with the updated_at field of a
\* Flag
SampleFlags ==
    { [id |-> 1, key |-> "f1", type |-> "boolean", value |-> v, ver |-> 1,
       updated_at |-> Datetime(1)] :
        v \in {"true", "false"} }

NoCall == [op |-> "none"]

\* REDIS_URL unset: settings.redis_url is None
NoConf == [REDIS_AVAILABLE |-> TRUE, redis_url |-> None]
\* flag_cache when create_cache() returned an InMemoryCache
InMemoryBackend == [kind |-> "memory", up |-> TRUE]

\* what the dict holds for key at clock t: "none", "valid" or "expired"
Held(c, key, t) ==
    IF key \notin DOMAIN c THEN "none"
    ELSE IF t - c[key].timestamp > TTL THEN "expired" ELSE "valid"

Brief(c) == IF c.op = "none" THEN c
            ELSE [op |-> c.op, key |-> c.key, flag |-> c.flag, at |-> c.at,
                  held |-> c.held]

Record(op, key, flag, r) ==
    /\ last' = [op |-> op, key |-> key, flag |-> flag, at |-> now,
                ret |-> r.ret, raised |-> r.raised, pre |-> cache,
                held |-> Held(cache, key, now)]
    /\ prev' = Brief(last)
    /\ cache' = r.cache

CallGet(key) ==
    /\ Record("get", key, None, CacheGet(cache, key, now))
    /\ UNCHANGED <<now, written, cleared, apiVars, redisVars>>

CallSet(key, flag) ==
    /\ Record("set", key, flag, CacheSet(cache, key, flag, now))
    /\ written' = Put(written, key, [flag |-> flag, timestamp |-> now])
    /\ cleared' = cleared \ {key}
    /\ UNCHANGED <<now, apiVars, redisVars>>

CallDelete(key) ==
    /\ Record("delete", key, None, CacheDelete(cache, key))
    /\ written' = Remove(written, key)
    /\ UNCHANGED <<now, cleared, apiVars, redisVars>>

CallClear ==
    /\ Record("clear", "", None, CacheClear(cache))
    /\ written' = EmptyDict
    /\ cleared' = cleared \cup DOMAIN cache
    /\ UNCHANGED <<now, apiVars, redisVars>>

\* the clock advances
Tick ==
    /\ now < MaxTime
    /\ now' = now + 1
    /\ UNCHANGED <<cache, cacheHist, apiVars, redisVars>>

CacheInit ==
    /\ cache = EmptyDict
    /\ now = 0
    /\ last = NoCall
    /\ prev = NoCall
    /\ written = EmptyDict
    /\ flags = EmptyDict
    /\ seq = 0
    /\ pc = [p \in Procs |-> "idle"]
    /\ req = [p \in Procs |-> NoReq]
    /\ resp = [p \in Procs |-> NoResp]
    /\ serial = FALSE
    /\ doneUpd = [k \in Keys |-> 0]
    /\ deleted = [k \in Keys |-> FALSE]
    /\ origin = [k \in Keys |-> "none"]
    /\ before = None
    /\ expect = None
    /\ cleared = {}
    /\ store = EmptyDict
    /\ reachable = TRUE
    /\ conf = NoConf
    /\ backend = InMemoryBackend

CacheNext ==
    \/ \E key \in Keys : CallGet(key)
    \/ \E key \in Keys, flag \in SampleFlags : CallSet(key, flag)
    \/ \E key \in Keys : CallDelete(key)
    \/ CallClear
    \/ Tick

CacheSpec == CacheInit /\ [][CacheNext]_vars

\* -------------------------------------------------------- request handlers
\* Each action is one store call or one cache call of a handler, with the
\* local computation around it.

\* get_flag_by_key: flag_cache.get(key); a hit returns the cached flag
GetCache(p, key) ==
    /\ Admit(p)
    /\ LET r == CacheGet(cache, key, now)
           q == [Req("get_by_key", key, 0, EmptyDict, None)
                    EXCEPT !.afterDel = deleted[key]]
       IN  /\ cache' = r.cache
           /\ IF r.ret # None
              THEN Finish(p, q, 200, r.ret)
              ELSE Goto(p, q, "get_db")
    /\ before' = Snapshot
    /\ UNCHANGED <<now, flags, seq, serial, doneUpd, deleted, expect, cacheHist, redisVars>>
    /\ origin' = Writers(cache')

\* get_flag_by_key: the select; no row raises 404
GetDb(p) ==
    /\ pc[p] = "get_db"
    /\ LET flag == SelectByKey(flags, req[p].key)
       IN  IF flag = None
           THEN Finish(p, req[p], 404, None)
           ELSE Goto(p, [req[p] EXCEPT !.flag = flag], "get_set")
    /\ UNCHANGED <<cache, now, flags, seq, serial, doneUpd, deleted, origin, before,
                   expect, cacheHist, redisVars>>

\* mutant of GetSet: the row is returned without the cache set
GetSetSkip(p) ==
    /\ pc[p] = "get_set"
    /\ Finish(p, req[p], 200, req[p].flag)
    /\ UNCHANGED <<cache, now, flags, seq, serial, doneUpd, deleted, origin,
                   before, expect, cacheHist, redisVars>>

\* get_flag_by_key: flag_cache.set(key, flag); return flag
GetSet(p) ==
    /\ pc[p] = "get_set"
    /\ cache' = CacheSet(cache, req[p].key, req[p].flag, now).cache
    /\ Finish(p, req[p], 200, req[p].flag)
    /\ UNCHANGED <<now, flags, seq, serial, doneUpd, deleted, before, expect,
                   cacheHist, redisVars>>
    /\ origin' = IF serial THEN origin
                 ELSE [origin EXCEPT ![req[p].key] = "read"]

\* create_flag: the select for an existing key, then _validate_flag_value
CreateCheck(p, flag_data) ==
    /\ Admit(p)
    /\ LET existing == SelectByKey(flags, flag_data.key)
           q == Req("create", flag_data.key, 0, flag_data, None)
       IN  IF existing # None
           THEN Finish(p, [q EXCEPT !.dup = TRUE], 400, None)
           ELSE IF ~ValidFlagValue(flag_data.type, flag_data.value)
           THEN Finish(p, q, 400, None)
           ELSE Goto(p, q, "create_commit")
    /\ before' = Snapshot
    /\ UNCHANGED <<cache, now, flags, seq, serial, doneUpd, deleted, origin, expect,
                   cacheHist, redisVars>>

\* create_flag: session.add(new_flag); session.commit().  The INSERT fails
\* on the unique index of key (dup records that the key was taken), and any
\* commit can fail on a storage fault.
CreateCommit(p) ==
    /\ pc[p] = "create_commit"
    /\ \/ /\ SelectByKey(flags, req[p].key) = None
          /\ seq < MaxCommits
          /\ NextId(flags) <= MaxId
          /\ LET id == NextId(flags)
                 d == req[p].data
                 row == [id |-> id, key |-> d.key, type |-> d.type,
                         value |-> d.value, ver |-> Stamp]
             IN  /\ flags' = Put(flags, id, row)
                 /\ pc' = [pc EXCEPT ![p] = "create_refresh"]
                 /\ req' = [q \in Procs |->
                              IF q = p
                              THEN [req[p] EXCEPT !.id = id, !.committed = TRUE,
                                                  !.cver = Stamp]
                              ELSE IF req[q].op = "get_by_key" /\ req[q].key = d.key
                              THEN [req[q] EXCEPT !.afterDel = FALSE]
                              ELSE req[q]]
          /\ seq' = Stamp
          /\ deleted' = [deleted EXCEPT ![req[p].key] = FALSE]
          /\ expect' = Forget(expect, req[p].key)
          /\ UNCHANGED resp
       \/ /\ Finish(p, [req[p] EXCEPT
                            !.dup = SelectByKey(flags, req[p].key) # None],
                    500, None)
          /\ UNCHANGED <<flags, seq, deleted, expect>>
    /\ UNCHANGED <<cache, now, serial, doneUpd, origin, before, cacheHist, redisVars>>

\* create_flag: session.refresh(new_flag) reads the row back
CreateRefresh(p) ==
    /\ pc[p] = "create_refresh"
    /\ LET row == SessionGet(flags, req[p].id)
       IN  IF row = None
           THEN Finish(p, req[p], 500, None)
           ELSE Goto(p, [req[p] EXCEPT !.flag = row], "create_cache")
    /\ UNCHANGED <<cache, now, flags, seq, serial, doneUpd, deleted, origin, before,
                   expect, cacheHist, redisVars>>

\* create_flag: flag_cache.set(new_flag.key, new_flag); return new_flag
CreateCache(p) ==
    /\ pc[p] = "create_cache"
    /\ cache' = CacheSet(cache, req[p].flag.key, req[p].flag, now).cache
    /\ Finish(p, req[p], 201, req[p].flag)
    /\ UNCHANGED <<now, flags, seq, serial, doneUpd, deleted, before, expect,
                   cacheHist, redisVars>>
    /\ origin' = IF serial THEN origin
                 ELSE [origin EXCEPT ![req[p].key] = "create"]

\* mutant of UpdLoad: the cache entry is invalidated before validation
UpdLoadInvalidateFirst(p, flag_id, update_data) ==
    /\ Admit(p)
    /\ LET flag == SessionGet(flags, flag_id)
           q == Req("update", "", flag_id, update_data, flag)
       IN  IF flag = None
           THEN Finish(p, q, 404, None) /\ UNCHANGED <<expect, cache>>
           ELSE LET new_type == DictGet(update_data, "type", flag.type)
                    new_value == DictGet(update_data, "value", flag.value)
                    r == [q EXCEPT !.key = flag.key]
                IN  /\ cache' = CacheDelete(cache, flag.key).cache
                    /\ IF ("value" \in DOMAIN update_data \/ "type" \in DOMAIN update_data)
                          /\ ValidateCrashes(new_type, new_value)
                       THEN Finish(p, r, 500, None) /\ UNCHANGED expect
                       ELSE IF ("value" \in DOMAIN update_data \/ "type" \in DOMAIN update_data)
                          /\ ~ValidFlagValue(new_type, new_value)
                       THEN /\ Finish(p, r, 400, None)
                            /\ expect' = IF serial
                                         THEN [key |-> flag.key, flag |-> flag,
                                               why |-> "rejected",
                                               was |-> CacheGet(cache, flag.key, now).ret]
                                         ELSE expect
                       ELSE Goto(p, r, "upd_commit") /\ UNCHANGED expect
    /\ before' = Snapshot
    /\ UNCHANGED <<now, flags, seq, serial, doneUpd, deleted, origin, cacheHist, redisVars>>

\* update_flag: session.get; no row raises 404; _validate_flag_value on the
\* merged type and value raises 400 (or crashes on None: 500); setattr
\* changes the session's object
UpdLoad(p, flag_id, update_data) ==
    /\ Admit(p)
    /\ LET flag == SessionGet(flags, flag_id)
           q == Req("update", "", flag_id, update_data, flag)
       IN  IF flag = None
           THEN Finish(p, q, 404, None) /\ UNCHANGED expect
           ELSE LET new_type == DictGet(update_data, "type", flag.type)
                    new_value == DictGet(update_data, "value", flag.value)
                    r == [q EXCEPT !.key = flag.key]
                IN  IF ("value" \in DOMAIN update_data \/ "type" \in DOMAIN update_data)
                       /\ ValidateCrashes(new_type, new_value)
                    THEN Finish(p, r, 500, None) /\ UNCHANGED expect
                    ELSE IF ("value" \in DOMAIN update_data \/ "type" \in DOMAIN update_data)
                       /\ ~ValidFlagValue(new_type, new_value)
                    THEN /\ Finish(p, r, 400, None)
                         /\ expect' = IF serial
                                      THEN [key |-> flag.key, flag |-> flag,
                                            why |-> "rejected",
                                            was |-> CacheGet(cache, flag.key, now).ret]
                                      ELSE expect
                    ELSE Goto(p, r, "upd_commit") /\ UNCHANGED expect
    /\ before' = Snapshot
    /\ UNCHANGED <<cache, now, flags, seq, serial, doneUpd, deleted, origin, cacheHist, redisVars>>

\* update_flag: session.add(flag); session.commit().  The UPDATE of a row
\* that is gone fails, as does one that sets a NOT NULL column to None, and
\* any commit can fail on a storage fault.
UpdCommit(p) ==
    /\ pc[p] = "upd_commit"
    /\ \/ /\ req[p].id \in DOMAIN flags
          /\ NotNullOk(Updated(flags[req[p].id], req[p].flag, req[p].data, 0))
          /\ seq < MaxCommits
          /\ flags' = [flags EXCEPT ![req[p].id] =
                          Updated(@, req[p].flag, req[p].data, Stamp)]
          /\ seq' = Stamp
          /\ Goto(p, [req[p] EXCEPT !.committed = TRUE, !.cver = Stamp],
                  "upd_refresh")
          /\ expect' = Forget(expect, req[p].key)
       \/ /\ Finish(p, req[p], 500, None)
          /\ UNCHANGED <<flags, seq, expect>>
    /\ UNCHANGED <<cache, now, serial, doneUpd, deleted, origin, before, cacheHist, redisVars>>

\* update_flag: session.refresh(flag) reads the row back
UpdRefresh(p) ==
    /\ pc[p] = "upd_refresh"
    /\ LET row == SessionGet(flags, req[p].id)
       IN  IF row = None
           THEN Finish(p, req[p], 500, None)
           ELSE Goto(p, [req[p] EXCEPT !.flag = row], "upd_cache")
    /\ UNCHANGED <<cache, now, flags, seq, serial, doneUpd, deleted, origin, before,
                   expect, cacheHist, redisVars>>

\* mutant of UpdCache: the update returns without the cache delete
UpdCacheKeep(p) ==
    /\ pc[p] = "upd_cache"
    /\ Finish(p, req[p], 200, req[p].flag)
    /\ expect' = IF serial
                 THEN [key |-> req[p].key, flag |-> req[p].flag,
                       why |-> "updated",
                       was |-> CacheGet(cache, req[p].key, now).ret]
                 ELSE expect
    /\ UNCHANGED <<cache, now, flags, seq, serial, doneUpd, deleted, origin,
                   before, cacheHist, redisVars>>

\* update_flag: flag_cache.delete(flag.key); return flag
UpdCache(p) ==
    /\ pc[p] = "upd_cache"
    /\ cache' = CacheDelete(cache, req[p].flag.key).cache
    /\ Finish(p, [req[p] EXCEPT !.invalidated = TRUE], 200, req[p].flag)
    /\ doneUpd' = [doneUpd EXCEPT ![req[p].key] =
                      IF req[p].cver > @ THEN req[p].cver ELSE @]
    /\ expect' = IF serial
                 THEN [key |-> req[p].key, flag |-> req[p].flag,
                       why |-> "updated",
                       was |-> CacheGet(cache, req[p].key, now).ret]
                 ELSE expect
    /\ UNCHANGED <<now, flags, seq, serial, deleted, before, cacheHist, redisVars>>
    /\ origin' = Writers(cache')

\* mutant of GetById: the row is returned without the not-found check
GetByIdUnchecked(p, flag_id) ==
    /\ Admit(p)
    /\ LET flag == SessionGet(flags, flag_id)
       IN  Finish(p, Req("get_by_id", "", flag_id, EmptyDict, flag), 200, flag)
    /\ before' = Snapshot
    /\ UNCHANGED <<cache, now, flags, seq, serial, doneUpd, deleted, origin, expect,
                   cacheHist, redisVars>>

\* get_flag: session.get(Flag, flag_id); no row raises 404, else the row
GetById(p, flag_id) ==
    /\ Admit(p)
    /\ LET flag == SessionGet(flags, flag_id)
           q == Req("get_by_id", "", flag_id, EmptyDict, flag)
       IN  IF flag = None
           THEN Finish(p, q, 404, None)
           ELSE Finish(p, q, 200, flag)
    /\ before' = Snapshot
    /\ UNCHANGED <<cache, now, flags, seq, serial, doneUpd, deleted, origin, expect,
                   cacheHist, redisVars>>

\* delete_flag: session.get; no row raises 404
DelLoad(p, flag_id) ==
    /\ Admit(p)
    /\ LET flag == SessionGet(flags, flag_id)
           q == Req("delete", "", flag_id, EmptyDict, flag)
       IN  IF flag = None
           THEN Finish(p, q, 404, None)
           ELSE Goto(p, [q EXCEPT !.key = flag.key], "del_cache")
    /\ before' = Snapshot
    /\ UNCHANGED <<cache, now, flags, seq, serial, doneUpd, deleted, origin, expect,
                   cacheHist, redisVars>>

\* mutant of DelCache: the delete goes on without the cache delete
DelCacheSkipped(p) ==
    /\ pc[p] = "del_cache"
    /\ Goto(p, req[p], "del_commit")
    /\ UNCHANGED <<cache, now, flags, seq, serial, doneUpd, deleted, origin,
                   before, expect, cacheHist, redisVars>>

\* delete_flag: flag_cache.delete(flag.key)
DelCache(p) ==
    /\ pc[p] = "del_cache"
    /\ cache' = CacheDelete(cache, req[p].flag.key).cache
    /\ Goto(p, [req[p] EXCEPT !.invalidated = TRUE], "del_commit")
    /\ UNCHANGED <<now, flags, seq, serial, doneUpd, deleted, before, expect,
                   cacheHist, redisVars>>
    /\ origin' = Writers(cache')

\* delete_flag: session.delete(flag); session.commit(); 204.  A DELETE that
\* matches no row only warns; any commit can fail on a storage fault.
DelCommit(p) ==
    /\ pc[p] = "del_commit"
    /\ \/ /\ seq < MaxCommits
          /\ flags' = Remove(flags, req[p].id)
          /\ seq' = Stamp
          /\ Finish(p, [req[p] EXCEPT !.committed = TRUE, !.cver = Stamp],
                    204, None)
          /\ deleted' = [deleted EXCEPT ![req[p].key] = ~serial]
          /\ expect' = Forget(expect, req[p].key)
       \/ /\ Finish(p, req[p], 500, None)
          /\ UNCHANGED <<flags, seq, deleted, expect>>
    /\ UNCHANGED <<cache, now, serial, doneUpd, origin, before, cacheHist, redisVars>>

\* the response has gone out; the worker takes the next request
Return(p) ==
    /\ pc[p] = "done"
    /\ pc' = [pc EXCEPT ![p] = "idle"]
    /\ req' = [req EXCEPT ![p] = NoReq]
    /\ resp' = [resp EXCEPT ![p] = NoResp]
    /\ before' = None
    /\ UNCHANGED <<cache, now, flags, seq, serial, doneUpd, deleted, origin, expect,
                   cacheHist, redisVars>>

\* flag_cache.clear(), as the test fixture calls it between requests
ClearCache ==
    /\ serial => Idle
    /\ cache' = CacheClear(cache).cache
    /\ UNCHANGED <<now, flags, seq, pc, req, resp, serial, doneUpd, deleted,
                   before, expect, cacheHist, redisVars>>
    /\ origin' = Writers(cache')

\* the process after startup: create_db_and_tables() on an empty database,
\* flag_cache = create_cache(), several workers
Init == CacheInit

\* the same with one worker serving every request
SeqInit ==
    /\ cache = EmptyDict
    /\ now = 0
    /\ flags = EmptyDict
    /\ seq = 0
    /\ pc = [p \in Procs |-> "idle"]
    /\ req = [p \in Procs |-> NoReq]
    /\ resp = [p \in Procs |-> NoResp]
    /\ serial = TRUE
    /\ doneUpd = [k \in Keys |-> 0]
    /\ deleted = [k \in Keys |-> FALSE]
    /\ origin = [k \in Keys |-> "none"]
    /\ before = None
    /\ expect = None
    /\ last = NoCall
    /\ prev = NoCall
    /\ written = EmptyDict
    /\ cleared = {}
    /\ store = EmptyDict
    /\ reachable = TRUE
    /\ conf = NoConf
    /\ backend = InMemoryBackend

Next ==
    \/ \E p \in Procs, key \in RequestKeys : GetCache(p, key)
    \/ \E p \in Procs : GetDb(p)
    \/ \E p \in Procs : GetSet(p)
    \/ \E p \in Procs, flag_id \in 1..MaxId : GetById(p, flag_id)
    \/ \E p \in Procs, flag_data \in {d \in CreateInputs : d.key \in RequestKeys} :
          CreateCheck(p, flag_data)
    \/ \E p \in Procs : CreateCommit(p)
    \/ \E p \in Procs : CreateRefresh(p)
    \/ \E p \in Procs : CreateCache(p)
    \/ \E p \in Procs, flag_id \in 1..MaxId, update_data \in UpdateInputs :
          UpdLoad(p, flag_id, update_data)
    \/ \E p \in Procs : UpdCommit(p)
    \/ \E p \in Procs : UpdRefresh(p)
    \/ \E p \in Procs : UpdCache(p)
    \/ \E p \in Procs, flag_id \in 1..MaxId : DelLoad(p, flag_id)
    \/ \E p \in Procs : DelCache(p)
    \/ \E p \in Procs : DelCommit(p)
    \/ \E p \in Procs : Return(p)
    \/ ClearCache
    \/ Tick

\* workers interleaved at every store call and cache call
Spec == Init /\ [][Next]_vars

\* one request at a time
SeqSpec == SeqInit /\ [][Next]_vars

\* ------------------------------------------ create and update, every type
\* FlagType
AllTypes == {"boolean", "string", "number", "json"}
\* values the typed requests send: a boolean, a number, plain text
TypedValues == {"true", "42", "x"}

\* FlagCreate bodies (a null type or value is refused before the handler)
TypedCreateInputs == [key : Keys, type : AllTypes, value : TypedValues]

\* FlagUpdate bodies: Optional fields, so a null is accepted
TypedUpdateInputs ==
    {EmptyDict} \cup [value : TypedValues \cup {Null}]
        \cup [type : AllTypes \cup {Null}]
        \cup [type : AllTypes, value : TypedValues]

\* the ids requests name: interleaved workers contend for the row of the one
\* key, which gets id 1 (nothing here deletes it)
RequestIds == IF serial THEN 1..MaxId ELSE {1}

TypeNext ==
    \/ \E p \in Procs, flag_data \in {d \in TypedCreateInputs : d.key \in RequestKeys} :
          CreateCheck(p, flag_data)
    \/ \E p \in Procs : CreateCommit(p)
    \/ \E p \in Procs : CreateRefresh(p)
    \/ \E p \in Procs : CreateCache(p)
    \/ \E p \in Procs, flag_id \in RequestIds, update_data \in TypedUpdateInputs :
          UpdLoad(p, flag_id, update_data)
    \/ \E p \in Procs : UpdCommit(p)
    \/ \E p \in Procs : UpdRefresh(p)
    \/ \E p \in Procs : UpdCache(p)
    \/ \E p \in Procs : Return(p)

\* create and update requests of every type, workers interleaved
TypeSpec == Init /\ [][TypeNext]_vars

\* the same, one request at a time
TypeSeqSpec == SeqInit /\ [][TypeNext]_vars

\* ------------------------------------------- InMemoryCache under threads
\* Callers on several threads share one InMemoryCache.  The interpreter
\* switches threads between bytecodes: one dict operation (in, [], del,
\* item assignment, pop, clear) is one step, and get is four of them.

ThreadReq(op, key, flag, timestamp) ==
    [op |-> op, key |-> key, flag |-> flag, timestamp |-> timestamp]

\* the call returns ret, or raises
ThreadDone(p, r, ret, raised) ==
    /\ pc' = [pc EXCEPT ![p] = "done"]
    /\ req' = [req EXCEPT ![p] = r]
    /\ resp' = [resp EXCEPT ![p] = [ret |-> ret, raised |-> raised]]

threadFrame == <<flags, seq, serial, doneUpd, deleted, origin, before, expect,
                 last, prev, cleared, redisVars>>

\* get: if key not in self._cache: return None
ThreadGetContains(p, key) ==
    /\ pc[p] = "idle"
    /\ IF key \notin DOMAIN cache
       THEN ThreadDone(p, ThreadReq("get", key, None, 0), None, FALSE)
       ELSE Goto(p, ThreadReq("get", key, None, 0), "get_item")
    /\ UNCHANGED <<cache, now, written, threadFrame>>

\* get: flag, timestamp = self._cache[key]; a KeyError when the key is gone
ThreadGetItem(p) ==
    /\ pc[p] = "get_item"
    /\ IF req[p].key \notin DOMAIN cache
       THEN ThreadDone(p, req[p], None, TRUE)
       ELSE Goto(p, [req[p] EXCEPT !.flag = cache[req[p].key].flag,
                                   !.timestamp = cache[req[p].key].timestamp],
                 "get_expired")
    /\ UNCHANGED <<cache, now, written, threadFrame>>

\* get: if datetime.utcnow() - timestamp > self._ttl, else return flag
ThreadGetExpired(p) ==
    /\ pc[p] = "get_expired"
    /\ IF now - req[p].timestamp > TTL
       THEN Goto(p, req[p], "get_del")
       ELSE ThreadDone(p, req[p], req[p].flag, FALSE)
    /\ UNCHANGED <<cache, now, written, threadFrame>>

\* get: del self._cache[key]; return None; a KeyError when the key is gone
ThreadGetDel(p) ==
    /\ pc[p] = "get_del"
    /\ IF req[p].key \notin DOMAIN cache
       THEN ThreadDone(p, req[p], None, TRUE) /\ UNCHANGED cache
       ELSE ThreadDone(p, req[p], None, FALSE)
            /\ cache' = Remove(cache, req[p].key)
    /\ UNCHANGED <<now, written, threadFrame>>

\* set: self._cache[key] = (flag, datetime.utcnow())
ThreadSet(p, key, flag) ==
    /\ pc[p] = "idle"
    /\ cache' = CacheSet(cache, key, flag, now).cache
    /\ written' = Put(written, key, [flag |-> flag, timestamp |-> now])
    /\ ThreadDone(p, ThreadReq("set", key, flag, now), None, FALSE)
    /\ UNCHANGED <<now, threadFrame>>

\* delete: self._cache.pop(key, None)
ThreadDelete(p, key) ==
    /\ pc[p] = "idle"
    /\ cache' = CacheDelete(cache, key).cache
    /\ written' = Remove(written, key)
    /\ ThreadDone(p, ThreadReq("delete", key, None, 0), None, FALSE)
    /\ UNCHANGED <<now, threadFrame>>

\* clear: self._cache.clear()
ThreadClear(p) ==
    /\ pc[p] = "idle"
    /\ cache' = CacheClear(cache).cache
    /\ written' = EmptyDict
    /\ ThreadDone(p, ThreadReq("clear", "", None, 0), None, FALSE)
    /\ UNCHANGED <<now, threadFrame>>

\* the caller goes on to its next call
ThreadReturn(p) ==
    /\ pc[p] = "done"
    /\ pc' = [pc EXCEPT ![p] = "idle"]
    /\ req' = [req EXCEPT ![p] = NoReq]
    /\ resp' = [resp EXCEPT ![p] = NoResp]
    /\ UNCHANGED <<cache, now, written, threadFrame>>

ThreadNext ==
    \/ \E p \in Procs, key \in Keys : ThreadGetContains(p, key)
    \/ \E p \in Procs : ThreadGetItem(p)
    \/ \E p \in Procs : ThreadGetExpired(p)
    \/ \E p \in Procs : ThreadGetDel(p)
    \/ \E p \in Procs, key \in Keys, flag \in SampleFlags :
          ThreadSet(p, key, flag)
    \/ \E p \in Procs, key \in Keys : ThreadDelete(p, key)
    \/ \E p \in Procs : ThreadClear(p)
    \/ \E p \in Procs : ThreadReturn(p)
    \/ Tick

\* threads calling the shared InMemoryCache
ThreadSpec == CacheInit /\ [][ThreadNext]_vars

\* --------------------------------------------------------------- RedisCache
\* self._prefix
Prefix == "openflag:flag:"

\* keys other clients of the shared server use
ForeignKeys == {"f1", "openflag:flags"}
\* the keys of the server's keyspace
StoreKeys == {Prefix \o k : k \in Keys} \cup ForeignKeys

\* a string value held by the server
Text(s) == [text |-> s]
\* values other clients write: empty, not JSON, JSON that is no object
ForeignData == {Text(""), Text("not json"), Text("42")}

\* the fields of a Flag that hold a datetime
DatetimeFields == {"created_at", "updated_at"}
\* JSON has no datetime: model_dump_json writes the ISO 8601 string
IsoFormat(d) == [iso |-> d.datetime]

\* flag.model_dump_json(): the JSON object of the record's fields
ModelDumpJson(flag) ==
    [text |-> "{..}",
     obj |-> [f \in DOMAIN flag |->
                 IF f \in DatetimeFields THEN IsoFormat(flag[f]) ELSE flag[f]]]

\* json.loads(data): the value, or JSONDecodeError
JsonLoads(data) ==
    IF "obj" \in DOMAIN data
    THEN [ok |-> TRUE, value |-> [dict |-> data.obj]]
    ELSE IF data.text \in JsonStrings
    THEN [ok |-> TRUE, value |-> [scalar |-> data.text]]
    ELSE [ok |-> FALSE]

\* Flag(**flag_dict): ** of a value that is no mapping is a TypeError; the
\* constructor of a table model sets the values it is given without
\* validating them, so the ISO strings stay strings
NewFlag(value) ==
    IF "dict" \in DOMAIN value
    THEN [ok |-> TRUE, flag |-> value.dict]
    ELSE [ok |-> FALSE]

\* the glob pattern prefix* of KEYS: the prefix holds no glob character
StartsWith(str, prefix) ==
    Len(str) >= Len(prefix) /\ SubSeq(str, 1, Len(prefix)) = prefix

\* the server's GET: the value, or nil
ServerGet(st, k) == IF k \in DOMAIN st THEN st[k].data ELSE None

\* the server drops the keys whose expiry time has passed: a key is live
\* up to and at its expiry time (expire_at is -1 for a key without expiry,
\* as the server's TTL command reports it)
Expire(st, t) ==
    [k \in {x \in DOMAIN st : st[x].expire_at = -1 \/ st[x].expire_at >= t}
        |-> st[k]]

\* A call on an unreachable server raises redis.ConnectionError in the
\* client.  Every operation returns the new keyspace, the returned value and
\* whether the call raised.

\* mutant of RedisGet: no try around json.loads and Flag(**flag_dict)
RedisGetNoCatch(st, key, up) ==
    LET cache_key == Prefix \o key
        data == ServerGet(st, cache_key)
    IN  IF ~up THEN [store |-> st, ret |-> None, raised |-> TRUE]
        ELSE IF data = None \/ data.text = ""
        THEN [store |-> st, ret |-> None, raised |-> FALSE]
        ELSE LET flag_dict == JsonLoads(data)
             IN  IF ~flag_dict.ok \/ ~NewFlag(flag_dict.value).ok
                 THEN [store |-> st, ret |-> None, raised |-> TRUE]
                 ELSE [store |-> st, ret |-> NewFlag(flag_dict.value).flag,
                       raised |-> FALSE]

\* RedisCache.get
RedisGet(st, key, up) ==
    LET cache_key == Prefix \o key
        data == ServerGet(st, cache_key)
    IN  IF ~up THEN [store |-> st, ret |-> None, raised |-> TRUE]
        ELSE IF data = None \/ data.text = ""
        THEN [store |-> st, ret |-> None, raised |-> FALSE]
        ELSE LET flag_dict == JsonLoads(data)
             IN  IF ~flag_dict.ok \/ ~NewFlag(flag_dict.value).ok
                 THEN [store |-> st, ret |-> None, raised |-> FALSE]
                 ELSE [store |-> st, ret |-> NewFlag(flag_dict.value).flag,
                       raised |-> FALSE]

\* RedisCache.set at clock t: SETEX cache_key ttl data
RedisSet(st, key, flag, t, up) ==
    LET cache_key == Prefix \o key
        data == ModelDumpJson(flag)
    IN  IF ~up THEN [store |-> st, ret |-> None, raised |-> TRUE]
        ELSE [store |-> Put(st, cache_key,
                            [data |-> data, expire_at |-> t + TTL]),
              ret |-> None, raised |-> FALSE]

\* RedisCache.delete: DEL cache_key
RedisDelete(st, key, up) ==
    LET cache_key == Prefix \o key
    IN  IF ~up THEN [store |-> st, ret |-> None, raised |-> TRUE]
        ELSE [store |-> Remove(st, cache_key), ret |-> None, raised |-> FALSE]

\* mutant of RedisKeys: KEYS *, every key of the server
RedisKeysAll(st, up) ==
    IF ~up THEN [keys |-> {}, raised |-> TRUE]
    ELSE [keys |-> DOMAIN st, raised |-> FALSE]

\* RedisCache.clear: self._redis.keys(f"{self._prefix}*")
RedisKeys(st, up) ==
    IF ~up THEN [keys |-> {}, raised |-> TRUE]
    ELSE [keys |-> {k \in DOMAIN st : StartsWith(k, Prefix)},
          raised |-> FALSE]

\* RedisCache.clear: self._redis.delete(*keys)
RedisDeleteKeys(st, keys, up) ==
    IF ~up THEN [store |-> st, ret |-> None, raised |-> TRUE]
    ELSE [store |-> [k \in DOMAIN st \ keys |-> st[k]], ret |-> None,
          raised |-> FALSE]

\* ------------------------------------------------------------ create_cache
\* a value of REDIS_URL
Url(s) == [url |-> s]
\* settings.redis_url: unset, empty, a Redis URL, a string with no scheme
RedisUrls == {None, Url(""), Url("redis://cache:6379/0"), Url("cache:6379")}
\* REDIS_AVAILABLE and settings.redis_url
Confs == [REDIS_AVAILABLE : BOOLEAN, redis_url : RedisUrls]

\* bool(settings.redis_url)
Truthy(u) == u # None /\ u.url # ""

\* redis.from_url(redis_url, decode_responses=True) builds the client and
\* its connection pool from the URL and opens no connection; a URL without
\* a redis://, rediss:// or unix:// scheme is a ValueError
FromUrlRaises(u) ==
    ~(\/ StartsWith(u.url, "redis://")
      \/ StartsWith(u.url, "rediss://")
      \/ StartsWith(u.url, "unix://"))

\* create_cache(): the class of the instance it returns
CreateCacheKind(c) ==
    IF c.REDIS_AVAILABLE /\ Truthy(c.redis_url)
    THEN IF FromUrlRaises(c.redis_url) THEN "memory" ELSE "redis"
    ELSE "memory"

\* ------------------------------------------- flag_cache, whichever backend
redisFrame == <<flags, seq, resp, serial, doneUpd, deleted, origin, before,
                expect, prev, written, cleared, conf>>

Call(op, key, flag, r, keys) ==
    [op |-> op, key |-> key, flag |-> flag, at |-> now, ret |-> r.ret,
     raised |-> r.raised, up |-> reachable, keys |-> keys,
     kind |-> backend.kind]

\* flag_cache = create_cache(), at import
Startup ==
    /\ backend.kind = "unset"
    /\ backend' = [kind |-> CreateCacheKind(conf), up |-> reachable]
    /\ UNCHANGED <<cache, now, store, reachable, last, pc, req, redisFrame>>

Ready == backend.kind # "unset" /\ pc["w1"] = "idle"

\* flag_cache.get(key)
FlagCacheGet(key) ==
    /\ Ready
    /\ IF backend.kind = "redis"
       THEN LET r == RedisGet(store, key, reachable)
            IN  /\ store' = r.store
                /\ last' = Call("get", key, None, r, {})
                /\ UNCHANGED cache
       ELSE LET r == CacheGet(cache, key, now)
            IN  /\ cache' = r.cache
                /\ last' = Call("get", key, None, r, {})
                /\ UNCHANGED store
    /\ UNCHANGED <<now, reachable, backend, pc, req, redisFrame>>

\* flag_cache.set(key, flag)
FlagCacheSet(key, flag) ==
    /\ Ready
    /\ IF backend.kind = "redis"
       THEN LET r == RedisSet(store, key, flag, now, reachable)
            IN  /\ store' = r.store
                /\ last' = Call("set", key, flag, r, {})
                /\ UNCHANGED cache
       ELSE LET r == CacheSet(cache, key, flag, now)
            IN  /\ cache' = r.cache
                /\ last' = Call("set", key, flag, r, {})
                /\ UNCHANGED store
    /\ UNCHANGED <<now, reachable, backend, pc, req, redisFrame>>

\* flag_cache.delete(key)
FlagCacheDelete(key) ==
    /\ Ready
    /\ IF backend.kind = "redis"
       THEN LET r == RedisDelete(store, key, reachable)
            IN  /\ store' = r.store
                /\ last' = Call("delete", key, None, r, {})
                /\ UNCHANGED cache
       ELSE LET r == CacheDelete(cache, key)
            IN  /\ cache' = r.cache
                /\ last' = Call("delete", key, None, r, {})
                /\ UNCHANGED store
    /\ UNCHANGED <<now, reachable, backend, pc, req, redisFrame>>

\* flag_cache.clear(): dict.clear(), or KEYS prefix* and `if keys:`
FlagCacheClear ==
    /\ Ready
    /\ IF backend.kind = "redis"
       THEN LET r == RedisKeys(store, reachable)
            IN  /\ IF r.raised \/ r.keys = {}
                   THEN /\ last' = Call("clear", "", None,
                                        [ret |-> None, raised |-> r.raised],
                                        r.keys)
                        /\ UNCHANGED <<pc, req>>
                   ELSE /\ pc' = [pc EXCEPT !["w1"] = "clear_delete"]
                        /\ req' = [req EXCEPT !["w1"] =
                                      [op |-> "clear", keys |-> r.keys]]
                        /\ last' = NoCall
                /\ UNCHANGED <<cache, store>>
       ELSE LET r == CacheClear(cache)
            IN  /\ cache' = r.cache
                /\ last' = Call("clear", "", None, r, {})
                /\ UNCHANGED <<store, pc, req>>
    /\ UNCHANGED <<now, reachable, backend, redisFrame>>

\* RedisCache.clear: DEL of the keys that KEYS returned
FlagCacheClearDelete ==
    /\ pc["w1"] = "clear_delete"
    /\ LET r == RedisDeleteKeys(store, req["w1"].keys, reachable)
       IN  /\ store' = r.store
           /\ last' = Call("clear", "", None, r, req["w1"].keys)
    /\ pc' = [pc EXCEPT !["w1"] = "idle"]
    /\ req' = [req EXCEPT !["w1"] = NoReq]
    /\ UNCHANGED <<cache, now, reachable, backend, redisFrame>>

\* another client of the shared server sets a key (the server matters once
\* flag_cache is a RedisCache)
ForeignWrite(k, data) ==
    /\ backend.kind = "redis"
    /\ store' = Put(store, k, [data |-> data, expire_at |-> -1])
    /\ last' = NoCall
    /\ UNCHANGED <<cache, now, reachable, backend, pc, req, redisFrame>>

\* the server goes away, or comes back
NetChange ==
    /\ backend.kind = "redis"
    /\ reachable' = ~reachable
    /\ UNCHANGED <<cache, now, store, last, backend, pc, req, redisFrame>>

\* the clock advances and the server drops the keys that expire
RedisTick ==
    /\ now < MaxTime
    /\ now' = now + 1
    /\ store' = Expire(store, now + 1)
    /\ last' = NoCall
    /\ UNCHANGED <<cache, reachable, backend, pc, req, redisFrame>>

\* the process at import of app.cache, with any configuration
RedisInit ==
    /\ cache = EmptyDict
    /\ now = 0
    /\ flags = EmptyDict
    /\ seq = 0
    /\ pc = [p \in Procs |-> "idle"]
    /\ req = [p \in Procs |-> NoReq]
    /\ resp = [p \in Procs |-> NoResp]
    /\ serial = FALSE
    /\ doneUpd = [k \in Keys |-> 0]
    /\ deleted = [k \in Keys |-> FALSE]
    /\ origin = [k \in Keys |-> "none"]
    /\ before = None
    /\ expect = None
    /\ last = NoCall
    /\ prev = NoCall
    /\ written = EmptyDict
    /\ cleared = {}
    /\ store = EmptyDict
    /\ reachable \in BOOLEAN
    /\ conf \in Confs
    /\ backend = [kind |-> "unset", up |-> FALSE]

RedisNext ==
    \/ Startup
    \/ \E key \in Keys : FlagCacheGet(key)
    \/ \E key \in Keys, flag \in SampleFlags : FlagCacheSet(key, flag)
    \/ \E key \in Keys : FlagCacheDelete(key)
    \/ FlagCacheClear
    \/ FlagCacheClearDelete
    \/ \E k \in StoreKeys :
          \E data \in IF k \in ForeignKeys THEN {Text("42")} ELSE ForeignData :
              ForeignWrite(k, data)
    \/ NetChange
    \/ RedisTick

\* flag_cache as create_cache() built it, on a shared Redis server
RedisSpec == RedisInit /\ [][RedisNext]_vars

\* ----------------------------------------------- the two caches side by side
\* An InMemoryCache and a RedisCache with the same ttl, the server reachable
\* and written by no other client, are given the same calls at the same
\* clock.

Answer(r) == [ret |-> r.ret, raised |-> r.raised]

Both(op, key, flag, m, r) ==
    /\ last' = [op |-> op, key |-> key, flag |-> flag, at |-> now,
                memory |-> Answer(m), redis |-> Answer(r),
                held |-> Held(cache, key, now)]
    /\ cache' = m.cache
    /\ store' = r.store

equivFrame == <<now, prev, written, cleared, apiVars, reachable, conf, backend>>

BothGet(key) ==
    /\ Both("get", key, None, CacheGet(cache, key, now),
            RedisGet(store, key, TRUE))
    /\ UNCHANGED equivFrame

BothSet(key, flag) ==
    /\ Both("set", key, flag, CacheSet(cache, key, flag, now),
            RedisSet(store, key, flag, now, TRUE))
    /\ UNCHANGED equivFrame

BothDelete(key) ==
    /\ Both("delete", key, None, CacheDelete(cache, key),
            RedisDelete(store, key, TRUE))
    /\ UNCHANGED equivFrame

\* RedisCache.clear: KEYS, and DEL if it found any
BothClear ==
    /\ LET keys == RedisKeys(store, TRUE).keys
       IN  Both("clear", "", None, CacheClear(cache),
                IF keys = {}
                THEN [store |-> store, ret |-> None, raised |-> FALSE]
                ELSE RedisDeleteKeys(store, keys, TRUE))
    /\ UNCHANGED equivFrame

\* the clock advances and the server drops the keys that expire
BothTick ==
    /\ now < MaxTime
    /\ now' = now + 1
    /\ store' = Expire(store, now + 1)
    /\ UNCHANGED <<cache, cacheHist, apiVars, reachable, conf, backend>>

EquivNext ==
    \/ \E key \in Keys : BothGet(key)
    \/ \E key \in Keys, flag \in SampleFlags : BothSet(key, flag)
    \/ \E key \in Keys : BothDelete(key)
    \/ BothClear
    \/ BothTick

\* both caches empty, the server's keyspace empty
EquivSpec == CacheInit /\ [][EquivNext]_vars

\* ------------------------------------------------------------------ claims
Mutations == {"create", "update", "delete"}

\* the answer of get_flag_by_key with an empty cache
StoreAnswer(key) ==
    LET flag == SelectByKey(flags, key)
    IN  IF flag = None THEN Response(404, None) ELSE Response(200, flag)

\* a get_flag_by_key request that was answered from the cache
Hit(p) ==
    pc[p] = "done" /\ req[p].op = "get_by_key" /\ resp[p].status = 200
        /\ req[p].flag = None

\* C1: once an update of a key has committed and its cache delete has
\* returned, an unexpired entry that a read-through wrote for the key holds a
\* row read from the table no earlier than that commit.
C1_NoStaleResurrection ==
    \A k \in DOMAIN cache :
        Valid(cache, k, now) /\ origin[k] = "read"
            => cache[k].flag.ver >= doneUpd[k]

\* C2: a create, update or delete request whose commit failed leaves the
\* cache as it was when the request began.
C2_FailedCommitKeepsCache ==
    \A p \in Procs :
        pc[p] = "done" /\ req[p].op \in Mutations /\ resp[p].status = 500
            => cache = before.cache

\* C3: an update or delete request issues its cache delete only after its
\* commit has succeeded, and has issued it when it answers 200 or 204.
C3_InvalidateAfterCommit ==
    \A p \in Procs :
        req[p].op \in {"update", "delete"} =>
            /\ req[p].invalidated => req[p].committed
            /\ pc[p] = "done" /\ resp[p].status \in {200, 204}
                  => req[p].invalidated

\* C4: with requests served one at a time, every get_flag_by_key answer is
\* the answer an empty cache would give (the table's row for the key, or
\* 404), and between requests every unexpired cache entry is the table's row.
C4_CacheNeverAuthoritative ==
    /\ \A p \in Procs :
          pc[p] = "done" /\ req[p].op = "get_by_key"
              => resp[p] = StoreAnswer(req[p].key)
    /\ (\A p \in Procs : pc[p] \in {"idle", "done"}) =>
          \A k \in DOMAIN cache :
              Valid(cache, k, now) => cache[k].flag = SelectByKey(flags, k)

\* C4 witness: a cache hit on a key that was updated before
C4_Witness ==
    \E p \in Procs :
        /\ Hit(p)
        /\ expect # None /\ expect.key = req[p].key /\ expect.why = "updated"
        /\ expect.was # None /\ expect.was # resp[p].flag

\* C5: after a successful update of a record, get_flag_by_key for its key
\* returns the updated record (until the key is written again).
C5_NextGetSeesUpdate ==
    \A p \in Procs :
        /\ pc[p] = "done" /\ req[p].op = "get_by_key"
        /\ expect # None /\ expect.key = req[p].key /\ expect.why = "updated"
        => resp[p] = Response(200, expect.flag)

\* C5 witness: the key was cached with another value when it was updated,
\* and the get after the update read the updated row from the table
C5_Witness ==
    \E p \in Procs :
        /\ pc[p] = "done" /\ req[p].op = "get_by_key"
        /\ expect # None /\ expect.key = req[p].key /\ expect.why = "updated"
        /\ expect.was # None /\ expect.was.value # expect.flag.value
        /\ req[p].flag = expect.flag
        /\ resp[p].flag = expect.flag

\* C6: a get_flag_by_key request that starts after a delete of the key's
\* record has answered 204, with no create of the key since, answers 404.
C6_NotFoundAfterDelete ==
    \A p \in Procs :
        pc[p] = "done" /\ req[p].op = "get_by_key" /\ req[p].afterDel
            => resp[p].status = 404

\* C7: an update answered 400 leaves the table and the cache as they were
\* when it began, and get_flag_by_key for the key then returns the record as
\* it was before the update.
C7_RejectedUpdateChangesNothing ==
    /\ \A p \in Procs :
          pc[p] = "done" /\ req[p].op = "update" /\ resp[p].status = 400
              => flags = before.flags /\ cache = before.cache
    /\ \A p \in Procs :
          /\ pc[p] = "done" /\ req[p].op = "get_by_key"
          /\ expect # None /\ expect.key = req[p].key /\ expect.why = "rejected"
          => resp[p] = Response(200, expect.flag)

\* C7 witness: the entry cached before the rejected update serves the get
\* after it
C7_Witness ==
    \E p \in Procs :
        /\ Hit(p)
        /\ expect # None /\ expect.key = req[p].key /\ expect.why = "rejected"
        /\ expect.was = resp[p].flag

\* C8: a get of a key whose latest set (at t0, no delete or clear since)
\* stored v returns v when now - t0 <= TTL and None when now - t0 > TTL.
C8_TtlExpiry ==
    last.op = "get" /\ last.key \in DOMAIN written =>
        LET w == written[last.key]
        IN  /\ ~last.raised
            /\ last.at - w.timestamp <= TTL => last.ret = w.flag
            /\ last.at - w.timestamp > TTL => last.ret = None

\* C8 witness: a get exactly TTL after the set, then a get after that
\* returns None
C8_Witness ==
    /\ last.op = "get" /\ last.key \in DOMAIN written
    /\ last.at - written[last.key].timestamp > TTL
    /\ last.ret = None
    /\ prev.op = "get" /\ prev.key = last.key
    /\ prev.at - written[last.key].timestamp = TTL
    /\ prev.held = "valid"

\* C9: set(k, v) leaves k -> (v, now) whatever k held, leaves the other
\* keys alone, and a get(k) right after it within TTL returns v.
C9_RoundTrip ==
    /\ last.op = "set" =>
          /\ ~last.raised
          /\ last.key \in DOMAIN cache
          /\ cache[last.key] = [flag |-> last.flag, timestamp |-> last.at]
          /\ \A k \in Keys \ {last.key} :
                /\ k \in DOMAIN cache <=> k \in DOMAIN last.pre
                /\ k \in DOMAIN cache => cache[k] = last.pre[k]
    /\ last.op = "get" /\ prev.op = "set" /\ prev.key = last.key
          /\ last.at - prev.at <= TTL
          => last.ret = prev.flag /\ ~last.raised

\* C9 witness: the set overwrote an expired entry of another value while the
\* other key was cached, and the get returned the new value
C9_Witness ==
    /\ last.op = "get" /\ prev.op = "set" /\ prev.key = last.key
    /\ prev.held = "expired"
    /\ last.ret = prev.flag
    /\ last.pre[last.key].timestamp = prev.at
    /\ \E k \in Keys \ {last.key} : k \in DOMAIN cache

\* C10: delete(k) never raises, removes k's entry and nothing else (nothing
\* at all when k has no entry), and a get(k) right after it returns None.
C10_DeleteIdempotent ==
    /\ last.op = "delete" =>
          /\ ~last.raised
          /\ last.key \notin DOMAIN cache
          /\ \A k \in Keys \ {last.key} :
                /\ k \in DOMAIN cache <=> k \in DOMAIN last.pre
                /\ k \in DOMAIN cache => cache[k] = last.pre[k]
          /\ last.key \notin DOMAIN last.pre => cache = last.pre
          /\ prev.op = "delete" /\ prev.key = last.key => cache = last.pre
    /\ last.op = "get" /\ prev.op = "delete" /\ prev.key = last.key
          => last.ret = None /\ ~last.raised

\* C10 witness: a second delete of a key whose entry the first delete
\* removed, with the other key still cached
C10_Witness ==
    /\ last.op = "delete" /\ prev.op = "delete" /\ prev.key = last.key
    /\ prev.held = "valid" /\ last.held = "none"
    /\ \E k \in Keys \ {last.key} : k \in DOMAIN cache

\* C11: clear() never raises and leaves the dict empty, and a get of a key
\* that held an entry when a clear() ran returns None until the key is set
\* again.
C11_ClearCompleteness ==
    /\ last.op = "clear" => ~last.raised /\ DOMAIN cache = {}
    /\ last.op = "get" /\ last.key \in cleared
          => last.ret = None /\ ~last.raised

\* C11 witness: both keys were cleared, one was set again, and a get of the
\* other, at a time when no entry can have expired, returned None
C11_Witness ==
    /\ last.op = "get" /\ last.key \in cleared /\ last.ret = None
    /\ last.at <= TTL
    /\ prev.op = "set" /\ prev.key # last.key
    /\ prev.key \in DOMAIN cache

\* C12: no call of get, set, delete or clear on the shared InMemoryCache
\* raises, however the calls of several threads interleave.
C12_NoCallRaises ==
    \A p \in Procs : pc[p] = "done" => ~resp[p].raised

\* C13: the dict is what some sequential order of the calls leaves: an entry
\* that a set wrote, with no delete or clear after it, stays in the dict
\* while it is unexpired (a get evicts an expired entry only).
C13_GetNeverEvictsFresh ==
    \A k \in DOMAIN written :
        now - written[k].timestamp <= TTL
            => k \in DOMAIN cache /\ cache[k] = written[k]

\* C14: a RedisCache.get on an unreachable server returns None and does not
\* raise.
C14_GetErrorIsMiss ==
    last.op = "get" /\ last.kind = "redis" /\ ~last.up
        => ~last.raised /\ last.ret = None

\* C15: a RedisCache.set or delete on an unreachable server returns without
\* raising.
C15_WriteErrorsSwallowed ==
    last.op \in {"set", "delete"} /\ last.kind = "redis" /\ ~last.up
        => ~last.raised

\* what the server holds under the cache key of the latest call
HeldData == ServerGet(store, Prefix \o last.key)

Untouched(k) ==
    /\ k \in DOMAIN store' <=> k \in DOMAIN store
    /\ k \in DOMAIN store => store'[k] = store[k]

\* C17: a RedisCache get, set or delete of key leaves every store key but
\* Prefix + key alone (get leaves all of them alone, set stores the record
\* under Prefix + key, delete removes it); clear removes the keys that KEYS
\* found, which are the keys starting with Prefix, and leaves every other
\* store key alone.
C17_Namespacing ==
    [][/\ last'.op \in {"get", "set", "delete"} /\ last'.kind = "redis" =>
            /\ \A k \in StoreKeys \ {Prefix \o last'.key} : Untouched(k)
            /\ last'.op = "get" \/ last'.raised => store' = store
            /\ last'.op = "set" /\ ~last'.raised =>
                  /\ Prefix \o last'.key \in DOMAIN store'
                  /\ store'[Prefix \o last'.key].data
                        = ModelDumpJson(last'.flag)
            /\ last'.op = "delete" /\ ~last'.raised =>
                  Prefix \o last'.key \notin DOMAIN store'
       /\ pc["w1"] = "idle" /\ pc'["w1"] = "clear_delete" =>
            /\ store' = store
            /\ req'["w1"].keys = {k \in DOMAIN store : StartsWith(k, Prefix)}
       /\ last'.op = "clear" /\ last'.kind = "redis" =>
            \A k \in StoreKeys :
                IF k \in last'.keys /\ ~last'.raised
                THEN StartsWith(k, Prefix) /\ k \notin DOMAIN store'
                ELSE Untouched(k)
      ]_vars

\* C17 witness: a clear removed both cache keys while the server held both
\* keys of other clients
C17_Witness ==
    /\ last.op = "clear" /\ last.kind = "redis" /\ ~last.raised
    /\ last.keys = {Prefix \o k : k \in Keys}
    /\ DOMAIN store = ForeignKeys

\* C18: create_cache() returns a RedisCache exactly when Redis support is
\* importable, REDIS_URL is set and the connection at startup succeeds (the
\* URL is usable and the server reachable); otherwise it returns an
\* InMemoryCache, whose set and get do not raise.
C18_BackendSelection ==
    backend.kind # "unset" =>
        /\ backend.kind = "redis" <=>
              /\ conf.REDIS_AVAILABLE
              /\ Truthy(conf.redis_url)
              /\ ~FromUrlRaises(conf.redis_url)
              /\ backend.up
        /\ backend.kind = "memory" /\ last.op \in {"get", "set"}
              => ~last.raised

\* the cache entries of the keys other than key are those of c
OthersKept(c, key) ==
    \A k \in Keys \ {key} :
        /\ k \in DOMAIN cache <=> k \in DOMAIN c
        /\ k \in DOMAIN cache => cache[k] = c[k]

\* C19: a get_flag_by_key request that missed the cache and found the row
\* has stored that row under the requested key when it returns it; one that
\* found no row answers 404 and leaves no entry for the key; neither touches
\* the table or the entries of other keys.
C19_ReadThrough ==
    \A p \in Procs :
        pc[p] = "done" /\ req[p].op = "get_by_key" /\ ~Hit(p) =>
            /\ flags = before.flags
            /\ OthersKept(before.cache, req[p].key)
            /\ resp[p] = StoreAnswer(req[p].key)
            /\ resp[p].status = 200 =>
                  /\ req[p].key \in DOMAIN cache
                  /\ cache[req[p].key].flag = resp[p].flag
                  /\ cache[req[p].key].timestamp <= now
                  /\ req[p].key \in DOMAIN before.cache =>
                        cache[req[p].key].timestamp
                            > before.cache[req[p].key].timestamp + TTL
            /\ resp[p].status = 404 => req[p].key \notin DOMAIN cache

\* C19 witness: the key's entry had expired, the other key was cached, and
\* the request stored the row again
C19_Witness ==
    \E p \in Procs :
        /\ pc[p] = "done" /\ req[p].op = "get_by_key" /\ ~Hit(p)
        /\ resp[p].status = 200
        /\ req[p].key \in DOMAIN before.cache
        /\ cache[req[p].key].flag = resp[p].flag
        /\ \E k \in Keys \ {req[p].key} : k \in DOMAIN cache

\* C20: no two rows share a key; a create request for a key that is taken
\* answers 400, whether the key was taken when the request began or was
\* taken by a concurrent create before its commit; a create answers 201
\* only when its row was committed.
C20_KeyUnique ==
    /\ \A i, j \in DOMAIN flags : flags[i].key = flags[j].key => i = j
    /\ \A p \in Procs :
          pc[p] = "done" /\ req[p].op = "create" =>
              /\ req[p].dup => resp[p].status = 400
              /\ resp[p].status = 201 => req[p].committed

\* a type and a value that go together
PairValid(flag_type, value) ==
    flag_type \in AllTypes /\ value # Null /\ ValidFlagValue(flag_type, value)

\* an update request names type or value
Touches(data) == "type" \in DOMAIN data \/ "value" \in DOMAIN data

\* C21: every stored row's value is valid for its type; a create whose pair
\* is invalid answers 400; an update that names type or value and whose
\* merged pair (the named fields over the row's) is invalid answers 400.
C21_TypeValidity ==
    /\ \A i \in DOMAIN flags : PairValid(flags[i].type, flags[i].value)
    /\ \A p \in Procs :
          pc[p] = "done" /\ req[p].op = "create"
              /\ ~PairValid(req[p].data.type, req[p].data.value)
              => resp[p].status = 400
    /\ \A p \in Procs :
          pc[p] = "done" /\ req[p].op = "update" /\ req[p].flag # None
              /\ Touches(req[p].data)
              /\ ~PairValid(DictGet(req[p].data, "type", req[p].flag.type),
                            DictGet(req[p].data, "value", req[p].flag.value))
              => resp[p].status = 400

\* C22: a get-by-id, update or delete request for an id that has no stored
\* record answers 404 and leaves the table and the cache as they were when
\* the request began.
C22_MissingIdNotFound ==
    \A p \in Procs :
        pc[p] = "done" /\ req[p].op \in {"get_by_id", "update", "delete"}
            /\ before # None /\ req[p].id \notin DOMAIN before.flags
        => /\ resp[p].status = 404
           /\ flags = before.flags
           /\ cache = before.cache

\* a delete of a missing id, with a row stored and an entry cached
C22_Witness ==
    \E p \in Procs :
        /\ pc[p] = "done" /\ req[p].op = "delete"
        /\ before # None /\ req[p].id \notin DOMAIN before.flags
        /\ resp[p].status = 404
        /\ DOMAIN flags # {} /\ DOMAIN cache # {}

\* C23: a successful update leaves the fields its body does not supply as
\* they were stored (updated_at aside), no update changes the id or the key
\* of a record, and a successful update changes no other record.
C23_PartialUpdateFrame ==
    \A p \in Procs :
        pc[p] = "done" /\ req[p].op = "update" /\ before # None
        => /\ \A i \in DOMAIN before.flags :
                 /\ i \in DOMAIN flags
                 /\ flags[i].id = before.flags[i].id
                 /\ flags[i].key = before.flags[i].key
           /\ resp[p].status = 200
              => /\ DOMAIN flags = DOMAIN before.flags
                 /\ \A i \in DOMAIN flags \ {req[p].id} : flags[i] = before.flags[i]
                 /\ "type" \notin DOMAIN req[p].data
                    => flags[req[p].id].type = before.flags[req[p].id].type
                 /\ "value" \notin DOMAIN req[p].data
                    => flags[req[p].id].value = before.flags[req[p].id].value

\* an update of the type alone, on a record whose value is not the default,
\* with a second record stored
C23_Witness ==
    \E p \in Procs :
        /\ pc[p] = "done" /\ req[p].op = "update" /\ resp[p].status = 200
        /\ before # None
        /\ DOMAIN req[p].data = {"type"}
        /\ flags[req[p].id].type # before.flags[req[p].id].type
        /\ flags[req[p].id].value = "42"
        /\ DOMAIN flags \ {req[p].id} # {}

\* the entry the dict holds for key changes or goes
EntryChanged(k) == k \notin DOMAIN cache' \/ cache'[k] # cache[k]

\* C24: a get(k) that finds an expired entry removes it and returns None,
\* leaving the dict as a get(k) on a dict that never held k leaves it; no
\* get(k) changes the entry of another key; and an expired entry stays in
\* the dict until a get, delete or set of its key or a clear.
C24_LazyExpiry ==
    /\ [](last.op = "get"
            => /\ last.held = "expired"
                  => /\ last.ret = None
                     /\ cache = CacheGet(Remove(last.pre, last.key), last.key,
                                         last.at).cache
                     /\ last.key \notin DOMAIN cache
               /\ \A k \in Keys \ {last.key} :
                     /\ k \in DOMAIN cache <=> k \in DOMAIN last.pre
                     /\ k \in DOMAIN cache => cache[k] = last.pre[k])
    /\ [][\A k \in DOMAIN cache :
              Held(cache, k, now) = "expired" /\ EntryChanged(k)
              => /\ now' = now
                 /\ \/ last'.op \in {"get", "delete", "set"} /\ last'.key = k
                    \/ last'.op = "clear"]_vars

\* a get has just evicted the expired entry of its key while the dict held
\* an expired entry of the other key, which is still there
C24_Witness ==
    /\ last.op = "get" /\ last.held = "expired" /\ last.ret = None
    /\ \E k \in Keys \ {last.key} :
          k \in DOMAIN cache /\ Held(cache, k, now) = "expired"

\* the timestamp the dict holds for key is new
Restamped(k) ==
    k \in DOMAIN cache'
        /\ (k \in DOMAIN cache => cache'[k].timestamp # cache[k].timestamp)

\* C26: a get(k) that finds a valid entry leaves the entry and its timestamp
\* as they were; whatever a get returns was set at most TTL before, however
\* many gets came in between; and only set(k, v) gives k a new timestamp.
C26_HitKeepsTimestamp ==
    /\ [](last.op = "get"
            => /\ last.held = "valid"
                  => /\ last.key \in DOMAIN cache
                     /\ cache[last.key] = last.pre[last.key]
               /\ last.ret # None
                  => /\ last.key \in DOMAIN written
                     /\ last.ret = written[last.key].flag
                     /\ last.at - written[last.key].timestamp <= TTL)
    /\ [][\A k \in Keys :
              Restamped(k) => now' = now /\ last'.op = "set" /\ last'.key = k]_vars

\* the entry is served a second time, exactly TTL after the set
C26_Witness ==
    /\ last.op = "get" /\ last.ret # None
    /\ last.key \in DOMAIN written
    /\ last.at - written[last.key].timestamp = TTL
    /\ prev.op = "get" /\ prev.key = last.key /\ prev.held = "valid"
    /\ prev.at < last.at

\* C25: given the same get, set, delete and clear calls at the same clock,
\* the server reachable, RedisCache answers every call as InMemoryCache
\* does: the same returned value and nothing raised by either.
C25_BackendEquivalence ==
    last.op \in {"get", "set", "delete", "clear"} => last.redis = last.memory

====
